---- MODULE Spec2Model ----
(***************************************************************************)
(* MSESimilarityEvaluator                                                  *)
(* (sentence_transformers/evaluation/MSESimilarityEvaluator.py).           *)
(*                                                                         *)
(* The evaluator is an object built by __init__ and used through __call__. *)
(* A call asks the model for two batches of embeddings, unpacks them when  *)
(* the precision is binary/ubinary, computes four per-pair metrics and     *)
(* their mean squared error against the gold scores, appends a row to a    *)
(* csv file and returns one of the four values.                            *)
(*                                                                         *)
(* Numbers.  A float is a fixed-point integer in units of 1/Scale; an      *)
(* integer numpy array keeps its dtype, and arithmetic inside such an      *)
(* array wraps to the width of the dtype.  csv cells are text.             *)
(***************************************************************************)
EXTENDS Integers, Sequences, FiniteSets, TLC

VARIABLES
    ev,         \* the evaluator object (self), or NoEvaluator
    ret,        \* what the last operation gave its caller: a value or an exception
    files,      \* the file system: path -> [exists, rows]
    files0,     \* the file system before the first operation (never changes)
    hist,       \* one record per __call__ made so far: its arguments and locals
    ctor,       \* the arguments of the last __init__, or NoCtor
    cfgs,       \* NameSpec: the (name, precision) pairs constructed so far
    csv_files   \* NameSpec: the csv_file each of them derived

vars == <<ev, ret, files, files0, hist, ctor, cfgs, csv_files>>

-----------------------------------------------------------------------------
\* Bounds of the model.

\* longest list of sentences / scores handed to __init__
MaxN == 2
\* most calls of one evaluator in one behaviour
MaxCalls == 2
\* packed width (bytes) of the wide binary embedding: 8 * WideBytes dimensions
WideBytes == 32

\* one unit of a float is 1/Scale
Scale == 2 ^ 4

-----------------------------------------------------------------------------
\* Python values.

None == "None"

COSINE == "SimilarityFunction.COSINE"
EUCLIDEAN == "SimilarityFunction.EUCLIDEAN"
MANHATTAN == "SimilarityFunction.MANHATTAN"
DOT_PRODUCT == "SimilarityFunction.DOT_PRODUCT"

\* the members of SimilarityFunction the evaluator tests for
SimilarityFunction == {COSINE, EUCLIDEAN, MANHATTAN, DOT_PRODUCT}

\* values that are neither a member nor None (a plain string is not a member)
Unrecognized == {"cosine"}

Precisions == {None, "float32", "int8", "uint8", "binary", "ubinary"}

NoEvaluator == [constructed |-> FALSE]

NoCtor == [called |-> FALSE]

-----------------------------------------------------------------------------
\* Arithmetic helpers.

\* the same sequence as a tuple, so that its elements are computed once
Eager(s) == s \o <<>>

SumSeq[s \in Seq(Int)] == IF s = <<>> THEN 0 ELSE Head(s) + SumSeq[Tail(s)]

Sum(s) == SumSeq[Eager(s)]

Abs(v) == IF v < 0 THEN -v ELSE v

\* the r with lo <= r < hi and r*r <= n < (r+1)*(r+1)
IsqrtIn[n \in Nat, lo \in Nat, hi \in Nat] ==
    IF hi - lo <= 1 THEN lo
    ELSE LET mid == (lo + hi) \div 2
         IN  IF mid * mid <= n THEN IsqrtIn[n, mid, hi] ELSE IsqrtIn[n, lo, mid]

\* floor of the square root (of a number below 2^30)
Isqrt(n) == IsqrtIn[n, 0, IF n < 2 ^ 15 THEN n + 1 ELSE 2 ^ 15]

\* numpy integer dtypes: a value stored in the dtype keeps only its low bits
BitsPerByte == 8
SignedOffset == 128

WrapTo(dtype, v) ==
    CASE dtype = "uint8" -> v % (2 ^ BitsPerByte)
      [] dtype = "int8"  -> ((v + 2 ^ (BitsPerByte - 1)) % (2 ^ BitsPerByte)) - 2 ^ (BitsPerByte - 1)
      [] dtype = "int16" -> ((v + 2 ^ 15) % (2 ^ 16)) - 2 ^ 15
      [] OTHER           -> v

\* the result dtype of (int array + python int 128): the scalar does not fit
\* int8, so the sum is carried out in int16
AddDtype(dtype) == IF dtype = "int8" THEN "int16" ELSE dtype

\* the dtype of the array model.encode returns for a precision
EncodeDtype(precision) ==
    CASE precision \in {"int8", "binary"}   -> "int8"
      [] precision \in {"uint8", "ubinary"} -> "uint8"
      [] OTHER                              -> "float"

-----------------------------------------------------------------------------
\* Arrays: [dtype, rows], rows a sequence of equally long vectors.

Array(dtype, rows) == [dtype |-> dtype, rows |-> rows]

\* (embeddings + 128).astype(np.uint8)
AddOffsetAsUint8(a) ==
    Array("uint8",
          Eager([i \in DOMAIN a.rows |->
              Eager([k \in DOMAIN a.rows[i] |->
                  WrapTo("uint8", WrapTo(AddDtype(a.dtype), a.rows[i][k] + SignedOffset))])]))

\* the bits of one byte, most significant first
BitsOf(b) == [j \in 1..BitsPerByte |-> (b \div (2 ^ (BitsPerByte - j))) % 2]

\* the bits of a row of bytes, byte after byte
UnpackedRow[bytes \in Seq(Int)] ==
    IF bytes = <<>> THEN <<>> ELSE BitsOf(Head(bytes)) \o UnpackedRow[Tail(bytes)]

\* np.unpackbits(embeddings, axis=1): every byte becomes its 8 bits
unpackbits(a) ==
    Array("uint8", Eager([i \in DOMAIN a.rows |-> UnpackedRow[a.rows[i]]]))

\* an unpacking that forgets the offset of the signed bytes
UnpackedWithoutOffset(precision, a) ==
    IF precision \in {"ubinary", "binary"} THEN unpackbits(a) ELSE a

\* lines 123-129: what the metrics are computed on
Unpacked(precision, a) ==
    LET shifted == IF precision = "binary" THEN AddOffsetAsUint8(a) ELSE a
    IN  IF precision \in {"ubinary", "binary"} THEN unpackbits(shifted) ELSE shifted

-----------------------------------------------------------------------------
\* The four metrics of one pair (x, y), as floats.

SumSq(x) == Sum([k \in DOMAIN x |-> x[k] * x[k]])

\* sklearn normalize: a row divided by its L2 norm, a zero row left as it is
Normalized(x) ==
    LET norm == Isqrt(SumSq(x) * Scale * Scale)
    IN  Eager([k \in DOMAIN x |->
                  IF norm = 0 THEN x[k] * Scale ELSE (x[k] * Scale * Scale) \div norm])

\* sklearn paired_cosine_distances: 0.5 * |normalize(x) - normalize(y)|^2
paired_cosine_distance(x, y) ==
    LET xn == Normalized(x)
        yn == Normalized(y)
    IN  Sum([k \in DOMAIN x |-> (xn[k] - yn[k]) * (xn[k] - yn[k])]) \div (2 * Scale)

paired_manhattan_distance(x, y) == Sum([k \in DOMAIN x |-> Abs(x[k] - y[k])]) * Scale

paired_euclidean_distance(x, y) ==
    Isqrt(Sum([k \in DOMAIN x |-> (x[k] - y[k]) * (x[k] - y[k])]) * Scale * Scale)

\* the sum of the products, in unbounded arithmetic
DotSum(x, y) == Sum([k \in DOMAIN x |-> x[k] * y[k]])

\* np.dot(emb1, emb2) of two rows of one dtype: the result has that dtype
np_dot(dtype, x, y) == WrapTo(dtype, DotSum(x, y))

cosine_scores(e1, e2) ==
    Eager([i \in DOMAIN e1.rows |-> Scale - paired_cosine_distance(e1.rows[i], e2.rows[i])])

manhattan_distances(e1, e2) ==
    Eager([i \in DOMAIN e1.rows |-> -paired_manhattan_distance(e1.rows[i], e2.rows[i])])

euclidean_distances(e1, e2) ==
    Eager([i \in DOMAIN e1.rows |-> -paired_euclidean_distance(e1.rows[i], e2.rows[i])])

dot_products(e1, e2) ==
    Eager([i \in DOMAIN e1.rows |-> np_dot(e1.dtype, e1.rows[i], e2.rows[i]) * Scale])

\* np.mean((metric - labels) ** 2)
MeanSquaredError(metric, labels) ==
    Sum([i \in DOMAIN metric |->
            ((metric[i] - labels[i]) * (metric[i] - labels[i])) \div Scale])
        \div Len(metric)

-----------------------------------------------------------------------------
\* __init__ (lines 26-82).

\* lines 69-74
CsvFile(name, precision) ==
    "MSE_similarity_evaluation"
        \o (IF name # "" THEN "_" \o name ELSE "")
        \o (IF precision # None /\ precision # "" THEN "_" \o precision ELSE "")
        \o "_results.csv"

\* lines 75-82
csv_headers == <<"epoch", "steps", "MSE_cosine", "MSE_euclidean", "MSE_manhattan", "MSE_dot">>

\* a constructor that compares the two sentence lists only
LengthsAgreeSentencesOnly(sentences1, sentences2, scores) ==
    Len(sentences1) = Len(sentences2)

\* lines 56-57: the two assertions, in order
LengthsAgree(sentences1, sentences2, scores) ==
    /\ Len(sentences1) = Len(sentences2)
    /\ Len(sentences1) = Len(scores)

\* the result of MSESimilarityEvaluator(...): an exception, or the object
__init__(sentences1, sentences2, scores, main_similarity, name, write_csv, precision) ==
    IF ~LengthsAgree(sentences1, sentences2, scores)
    THEN [raised |-> "AssertionError", self |-> NoEvaluator]
    ELSE [raised |-> None,
          self   |-> [constructed     |-> TRUE,
                      sentences1      |-> sentences1,
                      sentences2      |-> sentences2,
                      scores          |-> scores,
                      write_csv       |-> write_csv,
                      precision       |-> precision,
                      main_similarity |-> main_similarity,
                      name            |-> name,
                      csv_file        |-> CsvFile(name, precision)]]

-----------------------------------------------------------------------------
\* __call__ (lines 96-201).

NoArray == Array("float", <<>>)

\* what the caller gets
Returned(v) == [kind |-> "return", exc |-> None, value |-> v]
Raised(e) == [kind |-> "raise", exc |-> e, value |-> 0]
NoResult == [kind |-> "none", exc |-> None, value |-> 0]

\* os.path.join(output_path, self.csv_file)
PathJoin(dir, file) == dir \o "/" \o file

\* str() of a value, as csv.writer writes it
Cell(v) == ToString(v)

\* lines 177-186: the data row
DataRow(epoch, steps, mse) ==
    <<Cell(epoch), Cell(steps), Cell(mse.cosine), Cell(mse.euclidean),
      Cell(mse.manhattan), Cell(mse.dot)>>

\* a call that persists whenever it has a path
PersistsWithoutFlag(self, output_path) == output_path # None

\* line 169
Persists(self, output_path) == output_path # None /\ self.write_csv

\* a writer that puts the header before every row
WrittenFileHeaderEachTime(file, epoch, steps, mse) ==
    [exists |-> TRUE,
     rows |-> Append(Append(IF file.exists THEN file.rows ELSE <<>>, csv_headers),
                     DataRow(epoch, steps, mse))]

\* lines 170-186: the file after the row is written
WrittenFile(file, epoch, steps, mse) ==
    LET output_file_exists == file.exists
        opened == IF output_file_exists THEN file.rows ELSE <<>>
        headed == IF ~output_file_exists THEN Append(opened, csv_headers) ELSE opened
    IN  [exists |-> TRUE, rows |-> Append(headed, DataRow(epoch, steps, mse))]

\* a call that validates main_similarity before it writes
PersistedIfRecognized(self, fs, output_path, epoch, steps, mse) ==
    IF Persists(self, output_path) /\ self.main_similarity \in SimilarityFunction \cup {None}
    THEN LET csv_path == PathJoin(output_path, self.csv_file)
         IN  [fs EXCEPT ![csv_path] = WrittenFile(fs[csv_path], epoch, steps, mse)]
    ELSE fs

\* lines 169-186
Persisted(self, fs, output_path, epoch, steps, mse) ==
    IF Persists(self, output_path)
    THEN LET csv_path == PathJoin(output_path, self.csv_file)
         IN  [fs EXCEPT ![csv_path] = WrittenFile(fs[csv_path], epoch, steps, mse)]
    ELSE fs

Min2(a, b) == IF b < a THEN b ELSE a

\* a selection that returns the values in the order they are computed in
\* (cosine, manhattan, euclidean, dot), not the order of the branches
SelectedInComputationOrder(main_similarity, mse) ==
    IF main_similarity = COSINE THEN Returned(mse.cosine)
    ELSE IF main_similarity = EUCLIDEAN THEN Returned(mse.manhattan)
    ELSE IF main_similarity = MANHATTAN THEN Returned(mse.euclidean)
    ELSE IF main_similarity = DOT_PRODUCT THEN Returned(mse.dot)
    ELSE IF main_similarity = None
         THEN Returned(Min2(Min2(Min2(mse.cosine, mse.manhattan), mse.euclidean), mse.dot))
    ELSE Raised("ValueError")

\* a selection that treats every other value as None
SelectedWithDefault(main_similarity, mse) ==
    IF main_similarity = COSINE THEN Returned(mse.cosine)
    ELSE IF main_similarity = EUCLIDEAN THEN Returned(mse.euclidean)
    ELSE IF main_similarity = MANHATTAN THEN Returned(mse.manhattan)
    ELSE IF main_similarity = DOT_PRODUCT THEN Returned(mse.dot)
    ELSE Returned(Min2(Min2(Min2(mse.cosine, mse.manhattan), mse.euclidean), mse.dot))

\* lines 188-201
Selected(main_similarity, mse) ==
    IF main_similarity = COSINE THEN Returned(mse.cosine)
    ELSE IF main_similarity = EUCLIDEAN THEN Returned(mse.euclidean)
    ELSE IF main_similarity = MANHATTAN THEN Returned(mse.manhattan)
    ELSE IF main_similarity = DOT_PRODUCT THEN Returned(mse.dot)
    ELSE IF main_similarity = None
         THEN Returned(Min2(Min2(Min2(mse.cosine, mse.manhattan), mse.euclidean), mse.dot))
    ELSE Raised("ValueError")

\* lines 151-154
EvalMse(labels, e1, e2) ==
    [cosine    |-> MeanSquaredError(cosine_scores(e1, e2), labels),
     manhattan |-> MeanSquaredError(manhattan_distances(e1, e2), labels),
     euclidean |-> MeanSquaredError(euclidean_distances(e1, e2), labels),
     dot       |-> MeanSquaredError(dot_products(e1, e2), labels)]

NoMse == [cosine |-> 0, manhattan |-> 0, euclidean |-> 0, dot |-> 0]

\* a call that writes its row before it asks for the embeddings
FilesWrittenFirst(self, fs, output_path, epoch, steps) ==
    Persisted(self, fs, output_path, epoch, steps, NoMse)

\* lines 106-142 come before line 169: when an encode raises, the call ends
\* there and the file system is as it was
FilesOnFailure(self, fs, output_path, epoch, steps) == fs

\* The model collaborator is [raises, out1, out2]: raises = 1 or 2 when its first
\* or second encode raises, else 0; out1 and out2 are the arrays it returns.
\* The result is the file system, what the caller gets, and the call's locals.
__call__(self, fs, model, output_path, epoch, steps) ==
    LET args == [output_path |-> output_path, epoch |-> epoch, steps |-> steps,
                 model_raises |-> model.raises]
    IN  IF model.raises = 1
        THEN [files |-> FilesOnFailure(self, fs, output_path, epoch, steps), ret |-> Raised("EncodeError"),
              locals |-> [args |-> args, encode_requests |-> 1, reached |-> "encode1",
                          embeddings1 |-> NoArray, embeddings2 |-> NoArray,
                          raw1 |-> NoArray, raw2 |-> NoArray, dot_products |-> <<>>,
                          mse |-> NoMse, ret |-> Raised("EncodeError")]]
        ELSE IF model.raises = 2
        THEN [files |-> FilesOnFailure(self, fs, output_path, epoch, steps), ret |-> Raised("EncodeError"),
              locals |-> [args |-> args, encode_requests |-> 2, reached |-> "encode2",
                          embeddings1 |-> NoArray, embeddings2 |-> NoArray,
                          raw1 |-> model.out1, raw2 |-> NoArray, dot_products |-> <<>>,
                          mse |-> NoMse, ret |-> Raised("EncodeError")]]
        ELSE LET embeddings1 == Unpacked(self.precision, model.out1)
                 embeddings2 == Unpacked(self.precision, model.out2)
                 mse == EvalMse(self.scores, embeddings1, embeddings2)
                 result == Selected(self.main_similarity, mse)
             IN  [files |-> Persisted(self, fs, output_path, epoch, steps, mse),
                  ret |-> result,
                  locals |-> [args |-> args, encode_requests |-> 2, reached |-> "end",
                              embeddings1 |-> embeddings1, embeddings2 |-> embeddings2,
                              raw1 |-> model.out1, raw2 |-> model.out2,
                              dot_products |-> dot_products(embeddings1, embeddings2),
                              mse |-> mse, ret |-> result]]

-----------------------------------------------------------------------------
\* Inputs.

\* a list of n sentences
Sentences(n) == [i \in 1..n |-> "a"]

SentenceLists == {Sentences(n) : n \in 0..MaxN}

\* the lists of at most MaxN gold scores drawn from sample
ScoreLists(sample) == UNION {[1..n -> sample] : n \in 0..MaxN}

\* a batch of n rows, all equal to x
Rows(n, x) == [i \in 1..n |-> x]

\* the model raises in its first encode, or in its second after returning out1
FailingModels(out1) ==
    {[raises |-> 1, out1 |-> NoArray, out2 |-> NoArray],
     [raises |-> 2, out1 |-> out1, out2 |-> NoArray]}

\* the vectors the model returns, by precision (one set = one embedding width)
PackedOnes == [k \in 1..WideBytes |-> 2 ^ BitsPerByte - 1]

VectorSets(precision) ==
    CASE precision = "int8"    -> {{<<16, 16>>, <<-16, 1>>, <<0, -3>>}}
      [] precision = "uint8"   -> {{<<16, 16>>, <<1, 0>>, <<3, 16>>}}
      [] precision = "binary"  -> {{<<-128>>, <<-1>>, <<127>>},
                                   {[k \in 1..WideBytes |-> PackedOnes[k] - SignedOffset]}}
                                  \cup {{<<b>>} : b \in (-SignedOffset)..(SignedOffset - 1)}
      [] precision = "ubinary" -> {{<<0>>, <<129>>, <<255>>}, {PackedOnes}}
                                  \cup {{<<b>>} : b \in 0..(2 ^ BitsPerByte - 1)}
      [] OTHER                 -> {{<<1, 0>>, <<0, 0>>, <<-1, 2>>}}

\* every pair of batches of n rows over one vector set
Models(precision, n) ==
    {[raises |-> 0,
      out1 |-> Array(EncodeDtype(precision), r[1]),
      out2 |-> Array(EncodeDtype(precision), r[2])] :
        r \in UNION {[1..n -> vs] \X [1..n -> vs] : vs \in VectorSets(precision)}}

\* two pairs of batches: all rows alike, and the two batches different
FewModels(precision, n) ==
    LET vs == CHOOSE v \in VectorSets(precision) : Cardinality(v) > 1
        x == CHOOSE v \in vs : \A w \in vs : SumSq(w) <= SumSq(v)
        y == CHOOSE v \in vs : v # x
        ok == {[raises |-> 0,
                out1 |-> Array(EncodeDtype(precision), Rows(n, x)),
                out2 |-> Array(EncodeDtype(precision), Rows(n, r))] : r \in {x, y}}
    IN  ok \cup FailingModels(Array(EncodeDtype(precision), Rows(n, x)))

\* the evaluators of the lifecycle specification
CtorSelectors == {None} \cup Unrecognized
CtorNames == {""}
CtorPrecisions == {None, "binary"}
CtorScores == {Scale}

Dirs == {"out", "alt"}
FsPaths == {PathJoin(d, CsvFile(n, p)) : d \in Dirs, n \in CtorNames, p \in CtorPrecisions}

AbsentFile == [exists |-> FALSE, rows |-> <<>>]
\* a log an earlier run left behind
EarlierFile == [exists |-> TRUE, rows |-> <<csv_headers, <<"0", "-1", "1", "2", "3", "4">>>>]

\* before the first operation: the log of the binary precision exists already
\* in "out", every other log is absent
InitialFileSystem ==
    [p \in FsPaths |->
        IF \E n \in CtorNames : p = PathJoin("out", CsvFile(n, "binary"))
        THEN EarlierFile ELSE AbsentFile]

\* (epoch, steps) of the call made after k others: a training loop evaluates
\* once per epoch
Moments(k) == {<<k, -1>>}

-----------------------------------------------------------------------------
\* The lifecycle of one evaluator.

Init ==
    /\ ev = NoEvaluator
    /\ ret = NoResult
    /\ files0 = InitialFileSystem
    /\ files = files0
    /\ hist = <<>>
    /\ ctor = NoCtor
    /\ cfgs = <<>>
    /\ csv_files = <<>>

Construct ==
    /\ ~ev.constructed
    /\ \E sentences1 \in SentenceLists, sentences2 \in SentenceLists,
          scores \in ScoreLists(CtorScores), main_similarity \in CtorSelectors,
          name \in CtorNames, write_csv \in BOOLEAN, precision \in CtorPrecisions :
          LET made == __init__(sentences1, sentences2, scores, main_similarity,
                               name, write_csv, precision)
          IN  /\ ev' = made.self
              /\ ret' = IF made.raised = None THEN NoResult ELSE Raised(made.raised)
              /\ ctor' = [called |-> TRUE, sentences1 |-> sentences1,
                          sentences2 |-> sentences2, scores |-> scores,
                          main_similarity |-> main_similarity]
    /\ UNCHANGED <<files, files0, hist, cfgs, csv_files>>

\* one call of the evaluator with the given collaborator and arguments
CallWith(model, output_path, epoch, steps) ==
    LET done == __call__(ev, files, model, output_path, epoch, steps)
    IN  /\ files' = done.files
        /\ ret' = done.ret
        /\ hist' = Append(hist, done.locals)
        /\ UNCHANGED <<ev, files0, ctor, cfgs, csv_files>>

Call ==
    /\ ev.constructed
    /\ Len(ev.sentences1) >= 1
    /\ Len(hist) < MaxCalls
    /\ \E model \in FewModels(ev.precision, Len(ev.sentences1)),
          output_path \in Dirs \cup {None}, moment \in Moments(Len(hist)) :
          CallWith(model, output_path, moment[1], moment[2])

Next == Construct \/ Call

Spec == Init /\ [][Next]_vars

-----------------------------------------------------------------------------
\* One call of an evaluator that is already constructed: the metrics
\* (MetricSpec, every precision) and the returned value (SelectSpec, every
\* main_similarity).

MetricScores == {0, Scale}

\* the state after MSESimilarityEvaluator(sentences1, sentences2, scores, ...)
Constructed(scores, main_similarity, name, write_csv, precision) ==
    LET made == __init__(Sentences(Len(scores)), Sentences(Len(scores)), scores,
                         main_similarity, name, write_csv, precision)
    IN  /\ ev = made.self
        /\ ret = NoResult
        /\ ctor = [called |-> TRUE, sentences1 |-> Sentences(Len(scores)),
                   sentences2 |-> Sentences(Len(scores)), scores |-> scores,
                   main_similarity |-> main_similarity]
        /\ files0 = InitialFileSystem
        /\ files = files0
        /\ hist = <<>>
        /\ cfgs = <<>>
        /\ csv_files = <<>>

MetricInit ==
    \E scores \in ScoreLists(MetricScores), precision \in Precisions :
        Constructed(scores, None, "", FALSE, precision)

MetricCall ==
    /\ ev.constructed
    /\ Len(ev.sentences1) >= 1
    /\ hist = <<>>
    /\ \E model \in Models(ev.precision, Len(ev.sentences1)) :
          CallWith(model, None, -1, -1)

MetricNext == MetricCall

MetricSpec == MetricInit /\ [][MetricNext]_vars

SelectInit ==
    \E scores \in ScoreLists(MetricScores),
       main_similarity \in SimilarityFunction \cup {None} \cup Unrecognized :
        Constructed(scores, main_similarity, "", FALSE, None)

SelectCall ==
    /\ ev.constructed
    /\ Len(ev.sentences1) >= 1
    /\ hist = <<>>
    /\ \E model \in Models(ev.precision, Len(ev.sentences1))
                      \cup FailingModels(Array(EncodeDtype(ev.precision),
                                               Rows(Len(ev.sentences1), <<1, 0>>))) :
          CallWith(model, "out", 0, -1)

SelectNext == SelectCall

SelectSpec == SelectInit /\ [][SelectNext]_vars

-----------------------------------------------------------------------------
\* The derived file names of two evaluators (NameSpec).

NameSample == {"", "sts", "int8", "sts_int8", "sts_dev"}

NameInit ==
    /\ ev = NoEvaluator
    /\ ret = NoResult
    /\ ctor = NoCtor
    /\ files0 = InitialFileSystem
    /\ files = files0
    /\ hist = <<>>
    /\ cfgs = <<>>
    /\ csv_files = <<>>

\* construct one more evaluator and keep the csv_file it derived
NameConstruct ==
    /\ Len(cfgs) < 2
    /\ \E name \in NameSample, precision \in Precisions :
          LET made == __init__(<<>>, <<>>, <<>>, None, name, TRUE, precision)
          IN  /\ cfgs' = Append(cfgs, [name |-> name, precision |-> precision])
              /\ csv_files' = Append(csv_files, made.self.csv_file)
    /\ UNCHANGED <<ev, ret, ctor, files0, files, hist>>

NameNext == NameConstruct

NameSpec == NameInit /\ [][NameNext]_vars

-----------------------------------------------------------------------------
\* Properties of the lifecycle (Spec).

\* the locals of the last call
Last == hist[Len(hist)]

\* the step is a call; New is its record
IsCall == Len(hist') = Len(hist) + 1
New == hist'[Len(hist')]

AllEqual(a, b, c) == a = b /\ b = c

\* C5: construction raises the validation error (AssertionError) whenever the
\* lengths of sentences1, sentences2 and scores are not all equal, also when only
\* sentences2 or only scores differs; it does so before any embedding request
\* and any log write; with three equal lengths construction succeeds.
C5_ConstructionValidatesLengths ==
    ctor.called =>
        IF AllEqual(Len(ctor.sentences1), Len(ctor.sentences2), Len(ctor.scores))
        THEN /\ ev.constructed
             /\ ev.sentences1 = ctor.sentences1
             /\ ev.scores = ctor.scores
        ELSE /\ ~ev.constructed
             /\ ret = Raised("AssertionError")
             /\ hist = <<>>
             /\ files = files0

\* only the scores differ in length, and construction has raised
C5_Witness ==
    /\ ctor.called
    /\ Len(ctor.sentences1) = Len(ctor.sentences2)
    /\ Len(ctor.scores) # Len(ctor.sentences1)
    /\ ret = Raised("AssertionError")

\* C10: when the first or the second embedding request fails, the call ends with
\* the collaborator's error, returns no score, asks the model nothing more (one
\* request made if the first failed, two if the second) and leaves every log
\* file as it was.
C10_EncodeFailureLeavesLog ==
    [][(IsCall /\ New.args.model_raises # 0) =>
          /\ ret' = Raised("EncodeError")
          /\ ret'.kind # "return"
          /\ New.encode_requests = New.args.model_raises
          /\ files' = files]_vars

\* the second request failed in a call that would have persisted
C10_Witness ==
    /\ hist # <<>>
    /\ Last.args.model_raises = 2
    /\ Last.args.output_path # None
    /\ ev.write_csv
    /\ ret = Raised("EncodeError")

\* the lowest of the four values
LowestMse(mse) ==
    CHOOSE v \in {mse.cosine, mse.manhattan, mse.euclidean, mse.dot} :
        \A w \in {mse.cosine, mse.manhattan, mse.euclidean, mse.dot} : v <= w

\* C6: a call (whose embeddings arrive) writes to the log file exactly when
\* output_path is given and write_csv is set: then the file at
\* output_path/csv_file changes and no other does; with output_path None or
\* write_csv False no file is created or changed, and the call still returns the
\* selected score.
C6_WritesIffPathAndFlag ==
    [][(IsCall /\ New.args.model_raises = 0) =>
          IF New.args.output_path # None /\ ev.write_csv
          THEN /\ files'[PathJoin(New.args.output_path, ev.csv_file)]
                    # files[PathJoin(New.args.output_path, ev.csv_file)]
               /\ files'[PathJoin(New.args.output_path, ev.csv_file)].exists
               /\ \A p \in DOMAIN files :
                      p # PathJoin(New.args.output_path, ev.csv_file) => files'[p] = files[p]
          ELSE /\ files' = files
               /\ ev.main_similarity = None => ret' = Returned(LowestMse(New.mse))]_vars

\* a call with a path and write_csv False has returned a score and left the
\* logs alone
C6_Witness ==
    /\ hist # <<>>
    /\ Last.args.model_raises = 0
    /\ Last.args.output_path # None
    /\ ~ev.write_csv
    /\ ret.kind = "return"
    /\ files = files0

\* the text of the cells of a data row
RowText(epoch, steps, mse) ==
    <<ToString(epoch), ToString(steps), ToString(mse.cosine), ToString(mse.euclidean),
      ToString(mse.manhattan), ToString(mse.dot)>>

HeaderText == <<"epoch", "steps", "MSE_cosine", "MSE_euclidean", "MSE_manhattan", "MSE_dot">>

\* C9: with an unrecognized main_similarity, a path and write_csv set, a call
\* (whose embeddings arrive) first appends its data row, after the header if the
\* file was absent, and then raises the configuration error: the failed call
\* has changed the log.
C9_RowWrittenBeforeValueError ==
    [][(/\ IsCall
        /\ New.args.model_raises = 0
        /\ ev.main_similarity \notin SimilarityFunction \cup {None}
        /\ New.args.output_path # None
        /\ ev.write_csv) =>
          LET p == PathJoin(New.args.output_path, ev.csv_file)
              row == RowText(New.args.epoch, New.args.steps, New.mse)
          IN  /\ ret' = Raised("ValueError")
              /\ files'[p].exists
              /\ files'[p].rows = IF files[p].exists
                                  THEN files[p].rows \o <<row>>
                                  ELSE <<HeaderText, row>>
              /\ files' # files]_vars

\* a call has raised ValueError and the log it made holds a header and a row
C9_Witness ==
    /\ hist # <<>>
    /\ ev.main_similarity \in Unrecognized
    /\ ret = Raised("ValueError")
    /\ Last.args.output_path # None
    /\ ~files0[PathJoin(Last.args.output_path, ev.csv_file)].exists
    /\ Len(files[PathJoin(Last.args.output_path, ev.csv_file)].rows) = 2

\* the calls made so far all returned a score and all had output_path d
AllReturnedTo(d) ==
    \A i \in 1..Len(hist) : hist[i].ret.kind = "return" /\ hist[i].args.output_path = d

\* C3: from an absent log file, after k >= 1 successful calls with one
\* output_path and write_csv set, the file holds the header row once, then
\* exactly k data rows in call order, the i-th being (epoch, steps, MSE_cosine,
\* MSE_euclidean, MSE_manhattan, MSE_dot) of the i-th call.  (It holds after
\* every k, so the header is not written again and no earlier row changes.)
C3_HeaderOnceThenRowPerCall ==
    \A d \in Dirs :
        (/\ ev.constructed
         /\ ev.write_csv
         /\ hist # <<>>
         /\ AllReturnedTo(d)
         /\ ~files0[PathJoin(d, ev.csv_file)].exists) =>
            /\ files[PathJoin(d, ev.csv_file)].exists
            /\ files[PathJoin(d, ev.csv_file)].rows =
                   <<HeaderText>> \o
                   [i \in 1..Len(hist) |->
                       RowText(hist[i].args.epoch, hist[i].args.steps, hist[i].mse)]

\* two successful calls have written to a log that was absent
C3_Witness ==
    /\ ev.constructed
    /\ ev.write_csv
    /\ Len(hist) = 2
    /\ AllReturnedTo("out")
    /\ ~files0[PathJoin("out", ev.csv_file)].exists
    /\ Len(files[PathJoin("out", ev.csv_file)].rows) = 3

-----------------------------------------------------------------------------
\* Properties of the returned value (SelectSpec).

FourMse(mse) == {mse.cosine, mse.euclidean, mse.manhattan, mse.dot}

\* C1: a call (whose embeddings arrive) returns exactly MSE_cosine when
\* main_similarity is COSINE, MSE_euclidean when EUCLIDEAN, MSE_manhattan when
\* MANHATTAN, MSE_dot when DOT_PRODUCT; when it is None the returned value is
\* one of the four and is less than or equal to each of them.
C1_ReturnsSelectedMse ==
    (hist # <<>> /\ Last.args.model_raises = 0) =>
        /\ ev.main_similarity = COSINE => ret = Returned(Last.mse.cosine)
        /\ ev.main_similarity = EUCLIDEAN => ret = Returned(Last.mse.euclidean)
        /\ ev.main_similarity = MANHATTAN => ret = Returned(Last.mse.manhattan)
        /\ ev.main_similarity = DOT_PRODUCT => ret = Returned(Last.mse.dot)
        /\ ev.main_similarity = None =>
              /\ ret.kind = "return"
              /\ ret.value \in FourMse(Last.mse)
              /\ \A v \in FourMse(Last.mse) : ret.value <= v

\* main_similarity is None, the four values differ from one another and the
\* lowest, which is not the first computed, has been returned
C1_Witness ==
    /\ hist # <<>>
    /\ ev.main_similarity = None
    /\ Cardinality(FourMse(Last.mse)) = 4
    /\ ret.kind = "return"
    /\ ret.value # Last.mse.cosine

\* C2: with a main_similarity that is no member of SimilarityFunction and not
\* None, construction succeeds, no call returns a score, and every call whose
\* embeddings arrive raises the configuration error (ValueError).
C2_UnrecognizedRaisesAtCall ==
    (/\ ctor.called
     /\ ctor.main_similarity \notin SimilarityFunction \cup {None}
     /\ AllEqual(Len(ctor.sentences1), Len(ctor.sentences2), Len(ctor.scores))) =>
        /\ ev.constructed
        /\ ev.main_similarity = ctor.main_similarity
        /\ hist # <<>> =>
              /\ ret.kind = "raise"
              /\ Last.args.model_raises = 0 => ret = Raised("ValueError")

\* an evaluator with an unrecognized selector exists and its call has raised
C2_Witness ==
    /\ ev.constructed
    /\ ev.main_similarity \in Unrecognized
    /\ hist # <<>>
    /\ Last.args.model_raises = 0
    /\ ret = Raised("ValueError")

-----------------------------------------------------------------------------
\* Properties of the file name (NameSpec).

\* C4: two evaluators whose (name, precision) differ derive different
\* csv_file names.
C4_DistinctConfigurationsDistinctFiles ==
    \A i, j \in 1..Len(cfgs) : cfgs[i] # cfgs[j] => csv_files[i] # csv_files[j]

-----------------------------------------------------------------------------
\* Properties of the metrics (MetricSpec).

\* the metrics of the claim, of one pair of rows
TrueDot(e1, e2) == [i \in DOMAIN e1.rows |-> DotSum(e1.rows[i], e2.rows[i]) * Scale]

MseValuesAreMeans(h, labels) ==
    /\ h.mse.cosine = MeanSquaredError(cosine_scores(h.embeddings1, h.embeddings2), labels)
    /\ h.mse.manhattan = MeanSquaredError(manhattan_distances(h.embeddings1, h.embeddings2), labels)
    /\ h.mse.euclidean = MeanSquaredError(euclidean_distances(h.embeddings1, h.embeddings2), labels)
    /\ h.mse.dot = MeanSquaredError(TrueDot(h.embeddings1, h.embeddings2), labels)

\* C7: for N >= 1 pairs, each of the four MSE values is >= 0 and is the mean
\* over the pairs of (metric[i] - scores[i])^2, the metric being the cosine
\* similarity, the negated Manhattan distance, the negated Euclidean distance
\* and the dot product of the two embeddings of pair i.
C7_MseIsMeanSquaredError ==
    (hist # <<>> /\ Last.args.model_raises = 0) =>
        /\ \A v \in FourMse(Last.mse) : v >= 0
        /\ MseValuesAreMeans(Last, ev.scores)

\* the value of a row of 8 bits, most significant first
BitsValue(bits, byte) ==
    Sum([j \in 1..BitsPerByte |->
            bits[(byte - 1) * BitsPerByte + j] * 2 ^ (BitsPerByte - j)])

\* the rows of unpacked are the bits of the rows of raw, each byte plus offset
UnpacksTo(raw, unpacked, offset) ==
    /\ Len(unpacked.rows) = Len(raw.rows)
    /\ \A i \in DOMAIN raw.rows :
          /\ Len(unpacked.rows[i]) = BitsPerByte * Len(raw.rows[i])
          /\ \A k \in DOMAIN unpacked.rows[i] : unpacked.rows[i][k] \in {0, 1}
          /\ \A b \in DOMAIN raw.rows[i] :
                /\ raw.rows[i][b] + offset \in 0..(2 ^ BitsPerByte - 1)
                /\ BitsValue(unpacked.rows[i], b) = raw.rows[i][b] + offset

\* the number of places where two rows of bits differ
Differing(x, y) == Cardinality({k \in DOMAIN x : x[k] # y[k]})

\* C8: with precision "binary" every packed byte b of both batches becomes the
\* 8 bits (most significant first) of b + 128, which lies in 0..255; with
\* "ubinary" every byte becomes its own 8 bits; in both the width becomes 8
\* times the packed width and the metrics are computed on the arrays of bits
\* (the Manhattan metric is minus the number of differing bits); with every
\* other precision the embeddings are used as the model returned them.
C8_BinaryEmbeddingsUnpacked ==
    (hist # <<>> /\ Last.args.model_raises = 0) =>
        /\ ev.precision = "binary" =>
              /\ UnpacksTo(Last.raw1, Last.embeddings1, SignedOffset)
              /\ UnpacksTo(Last.raw2, Last.embeddings2, SignedOffset)
        /\ ev.precision = "ubinary" =>
              /\ UnpacksTo(Last.raw1, Last.embeddings1, 0)
              /\ UnpacksTo(Last.raw2, Last.embeddings2, 0)
        /\ ev.precision \in {"binary", "ubinary"} =>
              Last.mse.manhattan =
                  MeanSquaredError(
                      [i \in DOMAIN ev.scores |->
                          -Differing(Last.embeddings1.rows[i], Last.embeddings2.rows[i]) * Scale],
                      ev.scores)
        /\ ev.precision \notin {"binary", "ubinary"} =>
              /\ Last.embeddings1 = Last.raw1
              /\ Last.embeddings2 = Last.raw2

\* a batch of signed bytes with a negative byte has been unpacked
C8_Witness ==
    /\ hist # <<>>
    /\ ev.precision = "binary"
    /\ Last.args.model_raises = 0
    /\ Last.raw1.rows[1][1] = -1
    /\ Last.raw2.rows[1][1] = -SignedOffset
    /\ Len(Last.embeddings1.rows[1]) = BitsPerByte

====
